---- MODULE Spec2Model ----
(***************************************************************************)
(* Model of the account / certificate lifecycle of SecNex/certmanager:     *)
(*   account.NewAccount        (lookup-then-create of an ACME account)     *)
(*   certificate.NewCertificateWithConfig (one issuance transaction)       *)
(* against the two shared stores: the relational "accounts" table (gorm)   *)
(* and the object store (minio) that holds key and certificate blobs.      *)
(* Every store access and every ACME exchange is one atomic step of the    *)
(* calling worker; workers interleave freely between those steps.          *)
(***************************************************************************)
EXTENDS Integers, Sequences, FiniteSets, TLC

\* ------------------------------------------------------------------ bounds
MaxCalls == 3
NumKeys == 2

Procs == {1, 2}

\* ------------------------------------------------------------ input samples
Emails == {"a@example.com", "not-an-email"}
DomainLists == {<<"example.com">>, <<"example.com", "*.example.com">>}
Configs == {[ChallengeType |-> "",     DNSProvider |-> ""],
            [ChallengeType |-> "http", DNSProvider |-> ""],
            [ChallengeType |-> "dns",  DNSProvider |-> "manual"],
            [ChallengeType |-> "dns",  DNSProvider |-> "route53"],
            [ChallengeType |-> "smtp", DNSProvider |-> ""]}

\* errors the collaborators can hand back (the code passes them through)
DbErrs == {"connection refused"}
StoreErrs == {"timeout", "AccessDenied"}
AcmeErrs == {"timeout", "rateLimited"}

\* ------------------------------------------------------------------ values
NilID == 0
NoError == [prefix |-> "", cause |-> ""]
NilKey == [alg |-> "nil", n |-> 0]
NoBytes == << >>

Error(prefix, cause) == [prefix |-> prefix, cause |-> cause]

\* fmt.Errorf("<prefix>: %w", err)
WrapErr(prefix, err) ==
  [prefix |-> prefix, cause |-> err.cause]

\* govalidator.IsEmail on the sample addresses
IsEmail(email) == email \in {"a@example.com", "b@example.com"}

\* BeforeCreate without the address check
BeforeCreateNoCheck(email) == NoError

\* models.Account.BeforeCreate: the only place the address is validated
BeforeCreate(email) ==
  IF ~IsEmail(email) THEN Error("", "email address is not valid") ELSE NoError

\* ------------------------------------------------------- encoding of keys
\* an encoding that does not carry the key's own parameters
MarshalPKCS8PrivateKeyLossy(key) == <<"pkcs8", key.alg, 1>>

\* x509.MarshalPKCS8PrivateKey
MarshalPKCS8PrivateKey(key) == <<"pkcs8", key.alg, key.n>>

\* pem.EncodeToMemory(&pem.Block{Type: t, Bytes: b})
PemEncode(type, bytes) == <<"BEGIN", type>> \o bytes \o <<"END", type>>

\* pem.Decode: the block, or nil (ok = FALSE) when the data is not PEM
PemDecode(data) ==
  IF /\ Len(data) >= 4
     /\ data[1] = "BEGIN"
     /\ data[Len(data) - 1] = "END"
     /\ data[2] = data[Len(data)]
  THEN [ok |-> TRUE, type |-> data[2], bytes |-> SubSeq(data, 3, Len(data) - 2)]
  ELSE [ok |-> FALSE, type |-> "", bytes |-> NoBytes]

\* x509.ParsePKCS8PrivateKey
ParsePKCS8PrivateKey(bytes) ==
  IF Len(bytes) = 3 /\ bytes[1] = "pkcs8"
  THEN [key |-> [alg |-> bytes[2], n |-> bytes[3]], err |-> NoError]
  ELSE [key |-> NilKey, err |-> Error("", "x509: failed to parse private key")]

\* Storage.SavePrivateKey up to the Save call: the bytes that are stored
PrivateKeyPem(key) == PemEncode("PRIVATE KEY", MarshalPKCS8PrivateKey(key))

\* ------------------------------------------------------------- HTTP surface
\* sample values of the AUTH_ENABLED variable and of the key file
AuthEnabledValues == {"<unset>", "", "true", "1", "false", "0"}
KeyFiles == {"readable", "missing"}
Envs == [AUTH_ENABLED : AuthEnabledValues, keyFile : KeyFiles]

\* os.Getenv: an unset variable reads as the empty string
Getenv(v) == IF v = "<unset>" THEN "" ELSE v

\* bearer tokens, by what jwt.Parse finds in them
AllClaims == {"id", "email", "role", "scope"}
NoToken == [form |-> "none", sigOK |-> FALSE, expired |-> FALSE, claims |-> {}]
GarbageToken == [form |-> "garbage", sigOK |-> FALSE, expired |-> FALSE, claims |-> {}]
BadSigToken == [form |-> "jwt", sigOK |-> FALSE, expired |-> FALSE, claims |-> AllClaims]
ExpiredToken == [form |-> "jwt", sigOK |-> TRUE, expired |-> TRUE, claims |-> AllClaims]
ValidToken == [form |-> "jwt", sigOK |-> TRUE, expired |-> FALSE, claims |-> AllClaims]
BareToken == [form |-> "jwt", sigOK |-> TRUE, expired |-> FALSE, claims |-> {"id"}]

\* Authorization header values: absent, "Bearer <token>", "<token>" alone,
\* and another scheme
NoHeader == [scheme |-> "", token |-> NoToken]
AuthHeaders ==
  {NoHeader}
    \cup {[scheme |-> "Bearer ", token |-> t] :
            t \in {NoToken, GarbageToken, BadSigToken, ExpiredToken, ValidToken, BareToken}}
    \cup {[scheme |-> "", token |-> ValidToken], [scheme |-> "Basic ", token |-> ValidToken]}

Requests == [method : {"GET", "POST"}, path : {"/healthz", "/test", "/other"},
             authorization : AuthHeaders]

\* strings.TrimPrefix(token, "Bearer "): any other scheme stays in the string
TrimPrefix(h) == IF h.scheme \in {"Bearer ", ""} THEN h.token ELSE GarbageToken

\* a parser that does not validate the expiry claim
JwtParseNoExpiry(token) ==
  IF token.form # "jwt" THEN [err |-> "token contains an invalid number of segments", valid |-> FALSE]
  ELSE IF ~token.sigOK THEN [err |-> "signature is invalid", valid |-> FALSE]
  ELSE [err |-> "", valid |-> TRUE]

\* jwt.Parse with the key function of the middleware
JwtParse(token) ==
  IF token.form # "jwt" THEN [err |-> "token contains an invalid number of segments", valid |-> FALSE]
  ELSE IF ~token.sigOK THEN [err |-> "signature is invalid", valid |-> FALSE]
  ELSE IF token.expired THEN [err |-> "Token is expired", valid |-> FALSE]
  ELSE [err |-> "", valid |-> TRUE]

\* calls on the http.ResponseWriter
WriteHeader(code) == [call |-> "WriteHeader", code |-> code, data |-> "", n |-> 0]
Write(data, n) == [call |-> "Write", code |-> 0, data |-> data, n |-> n]

\* http.Error(w, msg, code)
HttpError(msg, n, code) == <<WriteHeader(code), Write(msg, n)>>

\* ApiServer.Healthz and ApiServer.Test
Healthz == <<WriteHeader(200), Write("OK", 2)>>
Test == <<WriteHeader(200), Write("This is a test!", 15)>>

\* what came of a request: which handler ran, what the authentication
\* middleware did, the calls made on the response writer
Outcome(auth, handler, ops, panicked) ==
  [auth |-> auth, handler |-> handler, ops |-> ops, panicked |-> panicked]

\* a middleware that reads the key file before it looks at the header
AuthMiddlewareKeyFirst(req, env, nextName, next) ==
  LET authDisabled == Getenv(env.AUTH_ENABLED) = "false" \/ Getenv(env.AUTH_ENABLED) = "0"
      parsed == JwtParse(TrimPrefix(req.authorization))
  IN IF authDisabled THEN Outcome("disabled", nextName, next, FALSE)
     ELSE IF env.keyFile # "readable"
       THEN Outcome("rejected", "none", HttpError("Internal Server Error\n", 22, 500), FALSE)
     ELSE IF req.authorization = NoHeader
       THEN Outcome("rejected", "none", HttpError("Unauthorized\n", 13, 401), FALSE)
     ELSE IF parsed.err # ""
       THEN Outcome("rejected", "none", HttpError("Unauthorized\n", 13, 401), FALSE)
     ELSE IF ~parsed.valid
       THEN Outcome("rejected", "none", HttpError("Unauthorized\n", 13, 401), FALSE)
     ELSE IF ~(AllClaims \subseteq TrimPrefix(req.authorization).claims)
       THEN Outcome("panic", "none", << >>, TRUE)
     ELSE Outcome("passed", nextName, next, FALSE)

\* AuthMiddleware(next) serving req (middleware/auth.go:19-74)
AuthMiddleware(req, env, nextName, next) ==
  LET authDisabled == Getenv(env.AUTH_ENABLED) = "false" \/ Getenv(env.AUTH_ENABLED) = "0"
      parsed == JwtParse(TrimPrefix(req.authorization))
  IN IF authDisabled THEN Outcome("disabled", nextName, next, FALSE)
     ELSE IF req.authorization = NoHeader
       THEN Outcome("rejected", "none", HttpError("Unauthorized\n", 13, 401), FALSE)
     ELSE IF env.keyFile # "readable"
       THEN Outcome("rejected", "none", HttpError("Internal Server Error\n", 22, 500), FALSE)
     ELSE IF parsed.err # ""
       THEN Outcome("rejected", "none", HttpError("Unauthorized\n", 13, 401), FALSE)
     ELSE IF ~parsed.valid
       THEN Outcome("rejected", "none", HttpError("Unauthorized\n", 13, 401), FALSE)
     ELSE IF ~(AllClaims \subseteq TrimPrefix(req.authorization).claims)
       THEN Outcome("panic", "none", << >>, TRUE)
     ELSE Outcome("passed", nextName, next, FALSE)

\* a router that registers /test next to /healthz, outside the subrouter
RouterAllPublic(req, env) ==
  IF req.path = "/healthz" /\ req.method = "GET"
    THEN Outcome("skipped", "Healthz", Healthz, FALSE)
  ELSE IF req.path = "/test" /\ req.method = "GET"
    THEN Outcome("skipped", "Test", Test, FALSE)
  ELSE IF req.path \in {"/healthz", "/test"}
    THEN Outcome("skipped", "none", <<WriteHeader(405)>>, FALSE)
  ELSE Outcome("skipped", "none", HttpError("404 page not found\n", 19, 404), FALSE)

\* the routes of setupRoutes as mux matches them: /healthz on the router, the
\* "/" subrouter with the middleware and /test; the middleware runs only when
\* a route of the subrouter matches
Router(req, env) ==
  IF req.path = "/healthz" /\ req.method = "GET"
    THEN Outcome("skipped", "Healthz", Healthz, FALSE)
  ELSE IF req.path = "/test" /\ req.method = "GET"
    THEN AuthMiddleware(req, env, "Test", Test)
  ELSE IF req.path \in {"/healthz", "/test"}
    THEN Outcome("skipped", "none", <<WriteHeader(405)>>, FALSE)
  ELSE Outcome("skipped", "none", HttpError("404 page not found\n", 19, 404), FALSE)

\* the response the client sees: the status of the first WriteHeader (200 when
\* a Write comes first), the bytes written; nothing after a panic
RECURSIVE Body(_)
Body(ops) ==
  IF ops = << >> THEN << >>
  ELSE IF Head(ops).call = "Write" THEN <<Head(ops).data>> \o Body(Tail(ops))
  ELSE Body(Tail(ops))

Status(ops) ==
  IF ops = << >> THEN 0
  ELSE IF Head(ops).call = "WriteHeader" THEN Head(ops).code ELSE 200

NoRequest == [method |-> "", path |-> "", authorization |-> NoHeader]

\* ------------------------------------------------------ logger (access log)
\* the wrapper's fields after the handler chain made the calls ops on it:
\* WriteHeader stores the code, Write adds the bytes the inner writer took
RECURSIVE responseWriter(_, _)
responseWriter(rw, ops) ==
  IF ops = << >> THEN rw
  ELSE IF Head(ops).call = "WriteHeader"
    THEN responseWriter([rw EXCEPT !.statusCode = Head(ops).code], Tail(ops))
  ELSE responseWriter([rw EXCEPT !.size = @ + Head(ops).n], Tail(ops))

\* LogHTTPRequest(next) serving req: the wrapper starts at 200 and size 0,
\* next.ServeHTTP(rw, r) runs, then the entry is printed; a panic of the
\* chain passes through (no defer, no recover) and nothing is printed
LogHTTPRequest(req, out) ==
  LET rw == responseWriter([statusCode |-> 200, size |-> 0], out.ops)
  IN IF out.panicked THEN << >>
     ELSE <<[Method |-> req.method, Path |-> req.path,
             StatusCode |-> rw.statusCode, ResponseSize |-> rw.size]>>

NoExchange ==
  [req |-> NoRequest, out |-> Outcome("none", "none", << >>, FALSE), log |-> << >>]

\* ------------------------------------------------------------ ApiServer.Start
\* DOMAIN in the environment, and the Host and Port pointers of the ApiServer
DomainValues == {"", "example.com"}
NilHost == "<nil>"
NilPort == -1
Hosts == {NilHost, "0.0.0.0", "127.0.0.1"}
Ports == {NilPort, 8080, 8443}

\* a listen address "host:port"; ":443" has the empty host
Addr(host, port) == [host |-> host, port |-> port]

\* fmt.Sprintf("%s:%d", *s.Host, *s.Port)
Sprintf(host, port) == Addr(host, port)

NoAddr == Addr("", 0)
NotStarted ==
  [domain |-> "", Host |-> NilHost, Port |-> NilPort,
   scheme |-> "none", Addr |-> NoAddr, logged |-> NoAddr, acme |-> FALSE]

\* StartHTTP(handler): the server's Addr is the literal ":80"
StartHTTP(domain, host, port, addr) ==
  [domain |-> domain, Host |-> host, Port |-> port,
   scheme |-> "http", Addr |-> Addr("", 80), logged |-> addr, acme |-> FALSE]

\* StartHTTPS(handler, addr, domain): TLS on addr, and the autocert
\* handler on ":80" in a goroutine
StartHTTPS(domain, host, port, addr) ==
  [domain |-> domain, Host |-> host, Port |-> port,
   scheme |-> "https", Addr |-> addr, logged |-> addr, acme |-> TRUE]

\* ApiServer.Start: which listener is started, on which address, and the
\* address of the "Starting api server on ..." line
StartServer(domain, host, port) ==
  LET https == domain # ""
      addr0 == IF ~https THEN Addr("", 80) ELSE Addr("", 443)
      addr == IF host # NilHost /\ port # NilPort THEN Sprintf(host, port) ELSE addr0
  IN IF https THEN StartHTTPS(domain, host, port, addr)
     ELSE StartHTTP(domain, host, port, addr)

\* ------------------------------------------------------------------- state
VARIABLES
  records,   \* rows of the accounts table: [id, email, deleted]
  certRows,  \* rows of a certificates table (models.Certificate)
  blobs,     \* object store: identifier string -> bytes
  nextId,    \* source of fresh uuids (uuid.New, gen_random_uuid)
  accts,     \* *account.Account objects handed back to callers
  calls,     \* calls started so far
  pc,        \* position of each worker
  frame,     \* locals of each worker's current call
  http       \* the API server: its environment and the last exchange served

vars == <<records, certRows, blobs, nextId, accts, calls, pc, frame, http>>

\* locals of a call; existed, recWrites, blobWrites and log record what the
\* call saw and did
IdleFrame ==
  [op |-> "none", email |-> "", id |-> NilID, key |-> NilKey,
   res |-> "pending", err |-> NoError,
   existed |-> FALSE, recWrites |-> 0, blobWrites |-> 0, log |-> << >>,
   acct |-> 0, argDomains |-> << >>,
   config |-> [ChallengeType |-> "", DNSProvider |-> ""],
   cert |-> [ID |-> NilID, Domains |-> << >>, AccountID |-> NilID, Cert |-> NoBytes]]

InitCore ==
  /\ records = {}
  /\ certRows = {}
  /\ blobs = << >>
  /\ nextId = 1
  /\ accts = << >>
  /\ calls = 0
  /\ pc = [p \in Procs |-> "idle"]
  /\ frame = [p \in Procs |-> IdleFrame]

\* the process as started by the README example: AUTH_ENABLED=true with a
\* readable key file, no request served yet
Init ==
  /\ InitCore
  /\ http = [env |-> [AUTH_ENABLED |-> "true", keyFile |-> "readable"],
            last |-> NoExchange, server |-> NotStarted]

Logged(p, ev) == \E i \in 1..Len(frame[p].log) : frame[p].log[i] = ev

\* the frame after ev happened
Step(p, ev) == [frame[p] EXCEPT !.log = Append(@, ev)]

\* the frame of a call that returns (res, err) after ev happened
Finish(p, res, err, ev) ==
  [frame[p] EXCEPT !.res = res, !.err = err, !.log = Append(@, ev)]

\* ------------------------------------------------------------ object store
HasBlob(id) == id \in DOMAIN blobs

\* minio PutObject: the object under key is created or replaced
Put(store, key, data) ==
  [k \in (DOMAIN store) \cup {key} |-> IF k = key THEN data ELSE store[k]]

\* a Read that hands back an empty object for a key the bucket does not hold
ReadMissingAsEmpty(id, outcome) ==
  IF outcome # "ok" THEN [data |-> NoBytes, err |-> Error("", outcome)]
  ELSE IF ~HasBlob(id) THEN [data |-> NoBytes, err |-> NoError]
  ELSE [data |-> blobs[id], err |-> NoError]

\* Storage.Read: the bytes, or the store's error
Read(id, outcome) ==
  IF outcome # "ok" THEN [data |-> NoBytes, err |-> Error("", outcome)]
  ELSE IF ~HasBlob(id) THEN [data |-> NoBytes, err |-> Error("", "NoSuchKey")]
  ELSE [data |-> blobs[id], err |-> NoError]

\* Storage.ReadPrivateKey: a block that does not decode returns (nil, nil)
ReadPrivateKey(id, outcome) ==
  LET r == Read(id, outcome)
      block == PemDecode(r.data)
  IN IF r.err # NoError THEN [key |-> NilKey, err |-> r.err]
     ELSE IF ~block.ok THEN [key |-> NilKey, err |-> r.err]
     ELSE ParsePKCS8PrivateKey(block.bytes)

\* ---------------------------------------------------------- accounts table
\* a lookup whose WHERE clause lost the email condition
FindByEmailAnyRow(email) == {r \in records : ~r.deleted}

\* Where("email = ?").First: soft-deleted rows are not visible to queries
FindByEmail(email) == {r \in records : r.email = email /\ ~r.deleted}

\* an accounts table without the unique index on email
UniqueViolationNoIndex(email) == FALSE

\* the unique index on email covers every row, soft-deleted ones included
UniqueViolation(email) == \E r \in records : r.email = email

DuplicateError == Error("", "duplicate key value violates unique constraint")

\* ------------------------------------------------------ account.NewAccount
NewAccountBegin(p, email) ==
  /\ pc[p] \in {"idle", "done"}
  /\ calls < MaxCalls
  /\ calls' = calls + 1
  /\ pc' = [pc EXCEPT ![p] = "lookup"]
  /\ frame' = [frame EXCEPT ![p] =
        [IdleFrame EXCEPT !.op = "NewAccount", !.email = email,
                          !.existed = \E r \in records : r.email = email]]
  /\ UNCHANGED <<http, records, certRows, blobs, nextId, accts>>

\* a lookup step that hands a database error back to the caller
NewAccountLookupErrReturned(p) ==
  /\ pc[p] = "lookup"
  /\ \E outcome \in {"ok"} \cup DbErrs :
       LET found == IF outcome = "ok" THEN FindByEmail(frame[p].email) ELSE {}
           existingID == IF found = {} THEN NilID ELSE (CHOOSE r \in found : TRUE).id
           ev == IF outcome # "ok" THEN "lookup:error"
                 ELSE IF found = {} THEN "lookup:miss" ELSE "lookup:found"
       IN IF outcome # "ok"
          THEN /\ frame' = [frame EXCEPT ![p] = Finish(p, "err", Error("", outcome), ev)]
               /\ pc' = [pc EXCEPT ![p] = "done"]
          ELSE /\ frame' = [frame EXCEPT ![p] = [Step(p, ev) EXCEPT !.id = existingID]]
               /\ pc' = [pc EXCEPT ![p] = IF existingID # NilID THEN "readkey" ELSE "create"]
  /\ UNCHANGED <<http, records, certRows, blobs, nextId, accts, calls>>

\* lines 113-121: a "record not found" is cleared, any other lookup error is
\* never looked at again; only existingAccount.ID decides the path
NewAccountLookup(p) ==
  /\ pc[p] = "lookup"
  /\ \E outcome \in {"ok"} \cup DbErrs :
       LET found == IF outcome = "ok" THEN FindByEmail(frame[p].email) ELSE {}
           existingID == IF found = {} THEN NilID ELSE (CHOOSE r \in found : TRUE).id
           ev == IF outcome # "ok" THEN "lookup:error"
                 ELSE IF found = {} THEN "lookup:miss" ELSE "lookup:found"
       IN /\ frame' = [frame EXCEPT ![p] = [Step(p, ev) EXCEPT !.id = existingID]]
          /\ pc' = [pc EXCEPT ![p] = IF existingID # NilID THEN "readkey" ELSE "create"]
  /\ UNCHANGED <<http, records, certRows, blobs, nextId, accts, calls>>

\* lines 124-134: read the stored key; the type assertion on a nil or
\* non-RSA key panics
NewAccountReadPrivateKey(p) ==
  /\ pc[p] = "readkey"
  /\ \E outcome \in {"ok"} \cup StoreErrs :
       LET r == ReadPrivateKey(frame[p].id, outcome)
       IN IF r.err # NoError
          THEN /\ frame' = [frame EXCEPT ![p] = Finish(p, "err", r.err, "readkey:fail")]
               /\ pc' = [pc EXCEPT ![p] = "done"]
          ELSE IF r.key.alg # "rsa"
          THEN /\ frame' = [frame EXCEPT ![p] = Finish(p, "panic", NoError, "readkey:panic")]
               /\ pc' = [pc EXCEPT ![p] = "done"]
          ELSE /\ frame' = [frame EXCEPT ![p] = [Step(p, "readkey:ok") EXCEPT !.key = r.key]]
               /\ pc' = [pc EXCEPT ![p] = "client"]
  /\ UNCHANGED <<http, records, certRows, blobs, nextId, accts, calls>>

\* lines 144-151: Create runs the BeforeCreate hook, then inserts
NewAccountCreate(p) ==
  /\ pc[p] = "create"
  /\ LET hook == BeforeCreate(frame[p].email)
     IN IF hook # NoError
        THEN /\ frame' = [frame EXCEPT ![p] = Finish(p, "err", hook, "create:invalid")]
             /\ pc' = [pc EXCEPT ![p] = "done"]
             /\ UNCHANGED <<records, nextId>>
        ELSE IF UniqueViolation(frame[p].email)
        THEN /\ frame' = [frame EXCEPT ![p] =
                   Finish(p, "err", DuplicateError, "create:duplicate")]
             /\ pc' = [pc EXCEPT ![p] = "done"]
             /\ UNCHANGED <<records, nextId>>
        ELSE /\ records' = records \cup
                   {[id |-> nextId, email |-> frame[p].email, deleted |-> FALSE]}
             /\ nextId' = nextId + 1
             /\ frame' = [frame EXCEPT ![p] =
                   [Step(p, "create:ok") EXCEPT !.id = nextId, !.recWrites = @ + 1]]
             /\ pc' = [pc EXCEPT ![p] = "genkey"]
  /\ UNCHANGED <<http, certRows, blobs, accts, calls>>

\* a CreatePrivateKey that saves the key before the account has its id
CreatePrivateKeyNilID(p) ==
  /\ pc[p] = "genkey"
  /\ \/ /\ frame' = [frame EXCEPT ![p] =
              Finish(p, "err", Error("", "key generation failed"), "genkey:fail")]
        /\ pc' = [pc EXCEPT ![p] = "done"]
        /\ UNCHANGED blobs
     \/ \E n \in 1..NumKeys, outcome \in {"ok"} \cup StoreErrs :
          LET key == [alg |-> "rsa", n |-> n]
          IN IF outcome # "ok"
             THEN /\ frame' = [frame EXCEPT ![p] =
                        Finish(p, "err", Error("", outcome), "savekey:fail")]
                  /\ pc' = [pc EXCEPT ![p] = "done"]
                  /\ UNCHANGED blobs
             ELSE /\ blobs' = Put(blobs, NilID, PrivateKeyPem(key))
                  /\ frame' = [frame EXCEPT ![p] =
                        [Step(p, "savekey:ok") EXCEPT !.key = key, !.blobWrites = @ + 1]]
                  /\ pc' = [pc EXCEPT ![p] = "client"]
  /\ UNCHANGED <<http, records, certRows, nextId, accts, calls>>

\* Account.CreatePrivateKey: generate, then SavePrivateKey under the id
CreatePrivateKey(p) ==
  /\ pc[p] = "genkey"
  /\ \/ /\ frame' = [frame EXCEPT ![p] =
              Finish(p, "err", Error("", "key generation failed"), "genkey:fail")]
        /\ pc' = [pc EXCEPT ![p] = "done"]
        /\ UNCHANGED blobs
     \/ \E n \in 1..NumKeys, outcome \in {"ok"} \cup StoreErrs :
          LET key == [alg |-> "rsa", n |-> n]
          IN IF outcome # "ok"
             THEN /\ frame' = [frame EXCEPT ![p] =
                        Finish(p, "err", Error("", outcome), "savekey:fail")]
                  /\ pc' = [pc EXCEPT ![p] = "done"]
                  /\ UNCHANGED blobs
             ELSE /\ blobs' = Put(blobs, frame[p].id, PrivateKeyPem(key))
                  /\ frame' = [frame EXCEPT ![p] =
                        [Step(p, "savekey:ok") EXCEPT !.key = key, !.blobWrites = @ + 1]]
                  /\ pc' = [pc EXCEPT ![p] = "client"]
  /\ UNCHANGED <<http, records, certRows, nextId, accts, calls>>

\* Account.CreateClient, then return &account
NewAccountCreateClient(p) ==
  /\ pc[p] = "client"
  /\ \E outcome \in {"ok"} \cup AcmeErrs :
       IF outcome # "ok"
       THEN /\ frame' = [frame EXCEPT ![p] =
                  Finish(p, "err", Error("", outcome), "client:fail")]
            /\ UNCHANGED accts
       ELSE /\ frame' = [frame EXCEPT ![p] = Finish(p, "ok", NoError, "client:ok")]
            /\ accts' = Append(accts, [id |-> frame[p].id, email |-> frame[p].email,
                                       key |-> frame[p].key, providers |-> {}])
  /\ pc' = [pc EXCEPT ![p] = "done"]
  /\ UNCHANGED <<http, records, certRows, blobs, nextId, calls>>

\* ----------------------------------- certificate.NewCertificateWithConfig
\* certificate.Resource.Certificate: the PEM chain the CA signed for domains
Bundle(domains) == PemEncode("CERTIFICATE", <<"x509">> \o domains)

\* GetSupportedChallengeTypes
GetSupportedChallengeTypes == {"http", "dns"}

\* ValidateDNSProviderConfig: nil for "manual", an error naming the provider
\* otherwise (no caller in the issuance path)
ValidateDNSProviderConfig(provider) ==
  IF provider = "manual" THEN NoError
  ELSE Error("DNS provider not supported yet", provider)

\* a constructor that leaves the certificate's identifier at the zero uuid
NewCertificateWithConfigNilID(p, a, domains, config) ==
  /\ pc[p] \in {"idle", "done"}
  /\ calls < MaxCalls
  /\ a \in 1..Len(accts)
  /\ calls' = calls + 1
  /\ nextId' = nextId + 1
  /\ pc' = [pc EXCEPT ![p] = "setup"]
  /\ frame' = [frame EXCEPT ![p] =
        [IdleFrame EXCEPT !.op = "Issue", !.acct = a, !.argDomains = domains,
                          !.config = config,
                          !.cert = [ID |-> NilID, Domains |-> domains,
                                    AccountID |-> accts[a].id, Cert |-> NoBytes]]]
  /\ UNCHANGED <<http, records, certRows, blobs, accts>>

\* lines 41-49: the in-memory certificate, with a fresh uuid
NewCertificateWithConfig(p, a, domains, config) ==
  /\ pc[p] \in {"idle", "done"}
  /\ calls < MaxCalls
  /\ a \in 1..Len(accts)
  /\ calls' = calls + 1
  /\ nextId' = nextId + 1
  /\ pc' = [pc EXCEPT ![p] = "setup"]
  /\ frame' = [frame EXCEPT ![p] =
        [IdleFrame EXCEPT !.op = "Issue", !.acct = a, !.argDomains = domains,
                          !.config = config,
                          !.cert = [ID |-> nextId, Domains |-> domains,
                                    AccountID |-> accts[a].id, Cert |-> NoBytes]]]
  /\ UNCHANGED <<http, records, certRows, blobs, accts>>

\* a switch whose default case falls back to the HTTP challenge
SwitchChallengeTypeDefaultHTTP(t) ==
  IF t = "dns" THEN "dns" ELSE "http"

\* the switch on c.Config.ChallengeType (lines 65-78): which case is taken
SwitchChallengeType(t) ==
  IF t = "http" THEN "http" ELSE IF t = "dns" THEN "dns" ELSE "default"

\* a setup that relies on a provider an earlier attempt registered on the
\* same client
SetProviderCached(p, kind, prefix) ==
  IF kind \in accts[frame[p].acct].providers
  THEN /\ pc' = [pc EXCEPT ![p] = "obtain"]
       /\ UNCHANGED <<accts, frame>>
  ELSE /\ accts' = [accts EXCEPT ![frame[p].acct].providers = @ \cup {kind}]
       /\ frame' = [frame EXCEPT ![p] =
             Step(p, IF kind = "http" THEN "register:http" ELSE "register:dns")]
       /\ pc' = [pc EXCEPT ![p] = "obtain"]

\* setupHTTPChallenge / setupDNSChallenge: register the provider on the
\* account's client; the DNS provider is always the manual one
SetProvider(p, kind, prefix) ==
  \E outcome \in {"ok"} \cup AcmeErrs :
    IF outcome # "ok"
    THEN /\ frame' = [frame EXCEPT ![p] =
               Finish(p, "err", WrapErr(prefix, Error("", outcome)), "setup:fail")]
         /\ pc' = [pc EXCEPT ![p] = "done"]
         /\ UNCHANGED accts
    ELSE /\ accts' = [accts EXCEPT ![frame[p].acct].providers = @ \cup {kind}]
         /\ frame' = [frame EXCEPT ![p] =
               Step(p, IF kind = "http" THEN "register:http" ELSE "register:dns")]
         /\ pc' = [pc EXCEPT ![p] = "obtain"]

\* RequestNewCertificate up to the obtain request (lines 65-78)
RequestSetupChallenge(p) ==
  /\ pc[p] = "setup"
  /\ LET t == frame[p].config.ChallengeType
         case == SwitchChallengeType(t)
     IN IF case = "http" THEN SetProvider(p, "http", "failed to setup HTTP challenge")
        ELSE IF case = "dns" THEN SetProvider(p, "dns", "failed to setup DNS challenge")
        ELSE /\ frame' = [frame EXCEPT ![p] =
                   Finish(p, "err", Error("unsupported challenge type", t), "setup:unsupported")]
             /\ pc' = [pc EXCEPT ![p] = "done"]
             /\ UNCHANGED accts
  /\ UNCHANGED <<http, records, certRows, blobs, nextId, calls>>

\* an obtain step that drops the CA's error and goes on to save
RequestObtainErrDropped(p) ==
  /\ pc[p] = "obtain"
  /\ \E outcome \in {"ok"} \cup AcmeErrs :
       /\ frame' = [frame EXCEPT ![p] =
             [Step(p, IF outcome = "ok" THEN "obtain:ok" ELSE "obtain:fail")
                EXCEPT !.cert.Cert = Bundle(frame[p].cert.Domains)]]
       /\ pc' = [pc EXCEPT ![p] = "save"]
  /\ UNCHANGED <<http, records, certRows, blobs, nextId, accts, calls>>

\* an obtain step that asks for the first name of the list only
RequestObtainFirstDomain(p) ==
  /\ pc[p] = "obtain"
  /\ \E outcome \in {"ok"} \cup AcmeErrs :
       IF outcome # "ok"
       THEN /\ frame' = [frame EXCEPT ![p] =
                  Finish(p, "err", Error("", outcome), "obtain:fail")]
            /\ pc' = [pc EXCEPT ![p] = "done"]
       ELSE /\ frame' = [frame EXCEPT ![p] =
                  [Step(p, "obtain:ok")
                     EXCEPT !.cert.Cert = Bundle(SubSeq(frame[p].cert.Domains, 1, 1))]]
            /\ pc' = [pc EXCEPT ![p] = "save"]
  /\ UNCHANGED <<http, records, certRows, blobs, nextId, accts, calls>>

\* RequestNewCertificate, lines 80-91: one bundled obtain for c.Domains
RequestObtain(p) ==
  /\ pc[p] = "obtain"
  /\ \E outcome \in {"ok"} \cup AcmeErrs :
       IF outcome # "ok"
       THEN /\ frame' = [frame EXCEPT ![p] =
                  Finish(p, "err", Error("", outcome), "obtain:fail")]
            /\ pc' = [pc EXCEPT ![p] = "done"]
       ELSE /\ frame' = [frame EXCEPT ![p] =
                  [Step(p, "obtain:ok") EXCEPT !.cert.Cert = Bundle(frame[p].cert.Domains)]]
            /\ pc' = [pc EXCEPT ![p] = "save"]
  /\ UNCHANGED <<http, records, certRows, blobs, nextId, accts, calls>>

\* a save that loses the certificate's identifier (zero uuid)
SaveCertificateNilID(store, id, cert) == Put(store, NilID, cert)

\* Storage.SaveCertificate(id, cert) = Save(id, cert.Certificate)
SaveCertificate(store, id, cert) == Put(store, id, cert)

\* a Save that stores the bundle under the account's identifier
SaveUnderAccountID(p) ==
  /\ pc[p] = "save"
  /\ \E outcome \in {"ok"} \cup StoreErrs :
       IF outcome # "ok"
       THEN /\ frame' = [frame EXCEPT ![p] =
                  Finish(p, "err", Error("", outcome), "save:fail")]
            /\ UNCHANGED blobs
       ELSE /\ blobs' = SaveCertificate(blobs, frame[p].cert.AccountID, frame[p].cert.Cert)
            /\ frame' = [frame EXCEPT ![p] =
                  [Finish(p, "ok", NoError, "save:ok") EXCEPT !.blobWrites = @ + 1]]
  /\ pc' = [pc EXCEPT ![p] = "done"]
  /\ UNCHANGED <<http, records, certRows, nextId, accts, calls>>

\* a Save that answers a store error by going back to the obtain request
SaveRetryObtain(p) ==
  /\ pc[p] = "save"
  /\ \E outcome \in {"ok"} \cup StoreErrs :
       IF outcome # "ok"
       THEN /\ frame' = [frame EXCEPT ![p] =
                  [frame[p] EXCEPT !.log = SubSeq(@, 1, Len(@) - 1),
                                   !.cert.Cert = NoBytes]]
            /\ pc' = [pc EXCEPT ![p] = "obtain"]
            /\ UNCHANGED blobs
       ELSE /\ blobs' = SaveCertificate(blobs, frame[p].cert.ID, frame[p].cert.Cert)
            /\ frame' = [frame EXCEPT ![p] =
                  [Finish(p, "ok", NoError, "save:ok") EXCEPT !.blobWrites = @ + 1]]
            /\ pc' = [pc EXCEPT ![p] = "done"]
  /\ UNCHANGED <<http, records, certRows, nextId, accts, calls>>

\* Certificate.Save (c.ID.String(), c.Cert), then return cert
Save(p) ==
  /\ pc[p] = "save"
  /\ \E outcome \in {"ok"} \cup StoreErrs :
       IF outcome # "ok"
       THEN /\ frame' = [frame EXCEPT ![p] =
                  Finish(p, "err", Error("", outcome), "save:fail")]
            /\ UNCHANGED blobs
       ELSE /\ blobs' = SaveCertificate(blobs, frame[p].cert.ID, frame[p].cert.Cert)
            /\ frame' = [frame EXCEPT ![p] =
                  [Finish(p, "ok", NoError, "save:ok") EXCEPT !.blobWrites = @ + 1]]
  /\ pc' = [pc EXCEPT ![p] = "done"]
  /\ UNCHANGED <<http, records, certRows, nextId, accts, calls>>

\* ------------------------------------------------------------------ Manager
\* a NewCertificate whose default is the DNS challenge
NewCertificateDefaultDNS(p, a, domains) ==
  NewCertificateWithConfig(p, a, domains, [ChallengeType |-> "dns", DNSProvider |-> ""])

\* certificate.NewCertificate: NewCertificateWithConfig with ChallengeTypeHTTP
NewCertificate(p, a, domains) ==
  NewCertificateWithConfig(p, a, domains, [ChallengeType |-> "http", DNSProvider |-> ""])

\* Manager.NewAccount: account.NewAccount on the manager's database and store
ManagerNewAccount(p, email) == NewAccountBegin(p, email)

\* Manager.NewCertificate: certificate.NewCertificate on the manager's store
ManagerNewCertificate(p, a, domains) == NewCertificate(p, a, domains)

Next ==
  \/ \E p \in Procs, email \in Emails : NewAccountBegin(p, email)
  \/ \E p \in Procs : NewAccountLookup(p)
  \/ \E p \in Procs : NewAccountReadPrivateKey(p)
  \/ \E p \in Procs : NewAccountCreate(p)
  \/ \E p \in Procs : CreatePrivateKey(p)
  \/ \E p \in Procs : NewAccountCreateClient(p)
  \/ \E p \in Procs, a \in 1..MaxCalls, domains \in DomainLists, config \in Configs :
       NewCertificateWithConfig(p, a, domains, config)
  \/ \E p \in Procs : RequestSetupChallenge(p)
  \/ \E p \in Procs : RequestObtain(p)
  \/ \E p \in Procs : Save(p)
  \/ \E p \in Procs, email \in Emails : ManagerNewAccount(p, email)
  \/ \E p \in Procs, a \in 1..MaxCalls, domains \in DomainLists :
       ManagerNewCertificate(p, a, domains)

Spec == Init /\ [][Next]_vars

\* the server handles one request
ServeHTTP(req) ==
  /\ LET out == Router(req, http.env)
     IN http' = [http EXCEPT !.last =
                   [req |-> req, out |-> out, log |-> LogHTTPRequest(req, out)]]
  /\ UNCHANGED <<records, certRows, blobs, nextId, accts, calls, pc, frame>>

NextHttp == \E req \in Requests : ServeHTTP(req)

\* the server under every environment it can be started in
InitHttp ==
  /\ InitCore
  /\ \E env \in Envs : http = [env |-> env, last |-> NoExchange, server |-> NotStarted]

SpecHttp == InitHttp /\ [][NextHttp]_vars

\* ------------------------------------------- the bucket's other writers
\* contents another writer of the bucket can leave under an account's id:
\* bytes that are not PEM, a PEM block that is not a PKCS#8 key, and a
\* PKCS#8 key that is not RSA
BadKeyBlobs ==
  {<<"garbage">>,
   PemEncode("PRIVATE KEY", <<"junk">>),
   PemEncode("PRIVATE KEY", MarshalPKCS8PrivateKey([alg |-> "ecdsa", n |-> 1]))}

\* Storage.Save: PutObject of any bytes under the key, no check of either;
\* the writers considered here write under the ids of account rows
StorageSave(id, data) ==
  /\ \E r \in records : r.id = id
  /\ blobs' = Put(blobs, id, data)
  /\ UNCHANGED <<http, records, certRows, nextId, accts, calls, pc, frame>>

NextCorrupt ==
  \/ \E p \in Procs, email \in Emails : NewAccountBegin(p, email)
  \/ \E p \in Procs : NewAccountLookup(p)
  \/ \E p \in Procs : NewAccountReadPrivateKey(p)
  \/ \E p \in Procs : NewAccountCreate(p)
  \/ \E p \in Procs : CreatePrivateKey(p)
  \/ \E p \in Procs : NewAccountCreateClient(p)
  \/ \E id \in 1..MaxCalls, data \in BadKeyBlobs : StorageSave(id, data)

SpecCorrupt == Init /\ [][NextCorrupt]_vars

\* --------------------------------------------------- soft-removed accounts
\* gorm's Delete on a model with a DeletedAt field: the row stays in the
\* table with deleted_at set
SoftDelete(id) ==
  /\ \E r \in records : r.id = id /\ ~r.deleted
  /\ records' = {IF r.id = id THEN [r EXCEPT !.deleted = TRUE] ELSE r : r \in records}
  /\ UNCHANGED <<http, certRows, blobs, nextId, accts, calls, pc, frame>>

NextSoftDelete ==
  \/ \E p \in Procs, email \in Emails : NewAccountBegin(p, email)
  \/ \E p \in Procs : NewAccountLookup(p)
  \/ \E p \in Procs : NewAccountReadPrivateKey(p)
  \/ \E p \in Procs : NewAccountCreate(p)
  \/ \E p \in Procs : CreatePrivateKey(p)
  \/ \E p \in Procs : NewAccountCreateClient(p)
  \/ \E id \in 1..MaxCalls : SoftDelete(id)

SpecSoftDelete == Init /\ [][NextSoftDelete]_vars

\* ------------------------------- certificate package, HTTP-only version
\* NewCertificate of the version without CertificateConfig: the in-memory
\* certificate with a fresh uuid, then RequestNewCertificate
NewCertificateHTTPOnly(p, a, domains) ==
  /\ pc[p] \in {"idle", "done"}
  /\ calls < MaxCalls
  /\ a \in 1..Len(accts)
  /\ calls' = calls + 1
  /\ nextId' = nextId + 1
  /\ pc' = [pc EXCEPT ![p] = "setup01"]
  /\ frame' = [frame EXCEPT ![p] =
        [IdleFrame EXCEPT !.op = "Issue", !.acct = a, !.argDomains = domains,
                          !.cert = [ID |-> nextId, Domains |-> domains,
                                    AccountID |-> accts[a].id, Cert |-> NoBytes]]]
  /\ UNCHANGED <<http, records, certRows, blobs, accts>>

\* RequestNewCertificate of that version up to the obtain request: an error
\* of SetHTTP01Provider goes to log.Fatal, which ends the process and with
\* it every worker
RequestNewCertificateHTTPOnly(p) ==
  /\ pc[p] = "setup01"
  /\ \E outcome \in {"ok"} \cup AcmeErrs :
       IF outcome # "ok"
       THEN /\ frame' = [frame EXCEPT ![p] =
                  Finish(p, "exit", Error("", outcome), "setup:fatal")]
            /\ pc' = [q \in Procs |-> "exited"]
            /\ UNCHANGED accts
       ELSE /\ accts' = [accts EXCEPT ![frame[p].acct].providers = @ \cup {"http"}]
            /\ frame' = [frame EXCEPT ![p] = Step(p, "register:http")]
            /\ pc' = [pc EXCEPT ![p] = "obtain"]
  /\ UNCHANGED <<http, records, certRows, blobs, nextId, calls>>

NextHTTPOnly ==
  \/ \E p \in Procs, email \in Emails : NewAccountBegin(p, email)
  \/ \E p \in Procs : NewAccountLookup(p)
  \/ \E p \in Procs : NewAccountReadPrivateKey(p)
  \/ \E p \in Procs : NewAccountCreate(p)
  \/ \E p \in Procs : CreatePrivateKey(p)
  \/ \E p \in Procs : NewAccountCreateClient(p)
  \/ \E p \in Procs, a \in 1..MaxCalls, domains \in DomainLists :
       NewCertificateHTTPOnly(p, a, domains)
  \/ \E p \in Procs : RequestNewCertificateHTTPOnly(p)
  \/ \E p \in Procs : RequestObtain(p)
  \/ \E p \in Procs : Save(p)

SpecHTTPOnly == Init /\ [][NextHTTPOnly]_vars

\* ---------------------------------------------------------- Account.Create
\* Account.Create: one lookup by email; every error of the lookup, "record
\* not found" included, is returned; a found row gives the receiver its id
AccountCreate(p, email) ==
  /\ pc[p] \in {"idle", "done"}
  /\ calls < MaxCalls
  /\ calls' = calls + 1
  /\ \E outcome \in {"ok"} \cup DbErrs :
       LET found == IF outcome = "ok" THEN FindByEmail(email) ELSE {}
           existingID == IF found = {} THEN NilID ELSE (CHOOSE r \in found : TRUE).id
           ev == IF outcome # "ok" THEN "lookup:error"
                 ELSE IF found = {} THEN "lookup:miss" ELSE "lookup:found"
           err == IF outcome # "ok" THEN Error("", outcome)
                  ELSE IF found = {} THEN Error("", "record not found") ELSE NoError
       IN frame' = [frame EXCEPT ![p] =
             [IdleFrame EXCEPT !.op = "Create", !.email = email,
                               !.existed = \E r \in records : r.email = email,
                               !.id = existingID,
                               !.res = IF err = NoError THEN "ok" ELSE "err",
                               !.err = err, !.log = <<ev>>]]
  /\ pc' = [pc EXCEPT ![p] = "done"]
  /\ UNCHANGED <<http, records, certRows, blobs, nextId, accts>>

NextCreate ==
  \/ \E p \in Procs, email \in Emails : NewAccountBegin(p, email)
  \/ \E p \in Procs : NewAccountLookup(p)
  \/ \E p \in Procs : NewAccountReadPrivateKey(p)
  \/ \E p \in Procs : NewAccountCreate(p)
  \/ \E p \in Procs : CreatePrivateKey(p)
  \/ \E p \in Procs : NewAccountCreateClient(p)
  \/ \E p \in Procs, email \in Emails : AccountCreate(p, email)

SpecCreate == Init /\ [][NextCreate]_vars

\* ------------------------------------------------------------- termination
\* the next return of a collaborator (database, bucket, CA) to worker p's
\* call, and the statements that follow it up to the next access
CallStep(p) ==
  \/ NewAccountLookup(p)
  \/ NewAccountReadPrivateKey(p)
  \/ NewAccountCreate(p)
  \/ CreatePrivateKey(p)
  \/ NewAccountCreateClient(p)
  \/ RequestSetupChallenge(p)
  \/ RequestObtain(p)
  \/ Save(p)

\* every access of a call in flight eventually returns
SpecLive == Spec /\ \A p \in Procs : WF_vars(CallStep(p))

\* ------------------------------------------------------- the server's start
\* Start() of a server that is not listening yet
Start(domain, host, port) ==
  /\ http.server = NotStarted
  /\ http' = [http EXCEPT !.server = StartServer(domain, host, port)]
  /\ UNCHANGED <<records, certRows, blobs, nextId, accts, calls, pc, frame>>

\* a request served by the listener Start brought up
ServeStarted(req) ==
  /\ http.server # NotStarted
  /\ ServeHTTP(req)

NextStart ==
  \/ \E domain \in DomainValues, host \in Hosts, port \in Ports : Start(domain, host, port)
  \/ \E req \in Requests : ServeStarted(req)

SpecStart == InitHttp /\ [][NextStart]_vars

\* ------------------------------------------------------------- properties
NewAccountCalls == {p \in Procs : frame[p].op = "NewAccount"}
IssueCalls == {p \in Procs : frame[p].op = "Issue"}
Returned(p) == pc[p] = "done"

\* blobs that hold a certificate bundle / a private key
CertBlobIds == {k \in DOMAIN blobs : PemDecode(blobs[k]).type = "CERTIFICATE"}
KeyBlobIds == {k \in DOMAIN blobs : PemDecode(blobs[k]).type = "PRIVATE KEY"}

\* C1: a NewAccount that succeeds on the create path has written exactly one
\* account row and one key blob, one that succeeds on the lookup path has
\* written nothing; every account returned for an email carries the same id
\* and the same key, that id is the email's only row and the key is the blob
\* stored under that id.
C1_GetOrCreateStable ==
  /\ \A p \in NewAccountCalls :
       frame[p].res = "ok" =>
         IF Logged(p, "create:ok")
         THEN frame[p].recWrites = 1 /\ frame[p].blobWrites = 1
         ELSE frame[p].recWrites = 0 /\ frame[p].blobWrites = 0
  /\ \A i \in 1..Len(accts) :
       /\ {r.id : r \in {x \in records : x.email = accts[i].email}} = {accts[i].id}
       /\ HasBlob(accts[i].id)
       /\ blobs[accts[i].id] = PrivateKeyPem(accts[i].key)
       /\ Cardinality(KeyBlobIds \cap {r.id : r \in {x \in records : x.email = accts[i].email}}) = 1
  /\ \A i, j \in 1..Len(accts) :
       accts[i].email = accts[j].email =>
         accts[i].id = accts[j].id /\ accts[i].key = accts[j].key

\* a call that created the account and a later call that found it have both
\* returned
C1_Witness ==
  /\ Len(accts) >= 2
  /\ accts[1].email = accts[2].email
  /\ \E p \in NewAccountCalls :
       frame[p].res = "ok" /\ Logged(p, "lookup:found") /\ frame[p].existed

\* C2: a NewAccount that starts when a row for its email exists writes no
\* account row and no blob, at any point of the call and whatever it returns.
C2_ExistingNoWrites ==
  \A p \in NewAccountCalls :
    frame[p].existed => frame[p].recWrites = 0 /\ frame[p].blobWrites = 0

\* such a call has returned an error after its lookup failed and it went on
\* to Create
C2_Witness ==
  \E p \in NewAccountCalls :
    /\ frame[p].existed /\ Returned(p) /\ frame[p].res = "err"
    /\ Logged(p, "lookup:error") /\ Logged(p, "create:duplicate")

C4_CreateRace ==
  /\ \A r1, r2 \in records : r1.email = r2.email => r1 = r2
  /\ \A p, q \in NewAccountCalls :
       ( /\ p # q
         /\ frame[p].email = frame[q].email
         /\ ~frame[p].existed /\ ~frame[q].existed
         /\ Logged(p, "create:ok") \/ Logged(p, "create:duplicate")
         /\ Logged(q, "create:ok") \/ Logged(q, "create:duplicate") )
       => Logged(p, "create:ok") # Logged(q, "create:ok")
  /\ \A p \in NewAccountCalls :
       Logged(p, "create:duplicate") =>
         /\ Returned(p) /\ frame[p].res = "err" /\ frame[p].err = DuplicateError
         /\ frame[p].recWrites = 0 /\ frame[p].blobWrites = 0

\* both calls missed in the lookup, then one created and the other failed
C4_Witness ==
  \E p, q \in NewAccountCalls :
    /\ p # q /\ frame[p].email = frame[q].email
    /\ ~frame[p].existed /\ ~frame[q].existed
    /\ Logged(p, "lookup:miss") /\ Logged(q, "lookup:miss")
    /\ Logged(p, "create:ok") /\ Logged(q, "create:duplicate")
\* C5: an Issue whose challenge setup or obtain request failed returns an
\* error and no certificate, and has written nothing: no blob under the
\* certificate's identifier, no certificate row, no store write at all.
C5_FailedObtainNoWrites ==
  \A p \in IssueCalls :
    (Logged(p, "obtain:fail") \/ Logged(p, "setup:fail") \/ Logged(p, "setup:unsupported")) =>
      /\ Returned(p) /\ frame[p].res = "err" /\ frame[p].err # NoError
      /\ frame[p].blobWrites = 0 /\ frame[p].recWrites = 0
      /\ ~HasBlob(frame[p].cert.ID)
      /\ \A r \in certRows : r.ID # frame[p].cert.ID

\* one Issue failed in the obtain request and another in the challenge setup
C5_Witness ==
  \E p, q \in IssueCalls :
    /\ Returned(p) /\ Logged(p, "obtain:fail")
    /\ Returned(q) /\ Logged(q, "setup:fail")

\* C6 (as claimed): the error of an Issue whose blob save failed after a
\* successful obtain differs from the error of an Issue whose obtain failed.
C6_SaveFailureDistinct ==
  \A p, q \in IssueCalls :
    (Logged(p, "obtain:ok") /\ Logged(p, "save:fail") /\ Logged(q, "obtain:fail")) =>
      frame[p].err # frame[q].err

\* C7: when Issue returns success the bundle obtained for the input domains
\* is the blob stored under the certificate's identifier, a Read of that
\* identifier succeeds, and the certificate's domains are the input list in
\* the input order, owned by the account the call was made for.
C7_IssueSuccess ==
  \A p \in IssueCalls :
    frame[p].res = "ok" =>
      /\ frame[p].cert.ID # NilID
      /\ Read(frame[p].cert.ID, "ok").err = NoError
      /\ Read(frame[p].cert.ID, "ok").data = frame[p].cert.Cert
      /\ frame[p].cert.Cert = Bundle(frame[p].argDomains)
      /\ frame[p].cert.Domains = frame[p].argDomains
      /\ frame[p].cert.AccountID = accts[frame[p].acct].id
      /\ frame[p].blobWrites = 1

\* a successful Issue for ["example.com", "*.example.com"] with the dns
\* challenge
C7_Witness ==
  \E p \in IssueCalls :
    /\ Returned(p) /\ frame[p].res = "ok"
    /\ frame[p].argDomains = <<"example.com", "*.example.com">>
    /\ frame[p].config.ChallengeType = "dns"

\* C8 (as claimed): a certificate row is persisted exactly when the blob of
\* the same identifier is persisted.
C8_RowIffBlob ==
  {r.ID : r \in certRows} = CertBlobIds

\* C9 (as claimed): an Issue with challenge type dns and a provider other
\* than "manual" fails with the unsupported-provider error naming the
\* provider, registers no challenge provider and submits no obtain request;
\* with provider "manual" the configuration succeeds.
C9_DNSProviderChecked ==
  \A p \in IssueCalls :
    frame[p].config.ChallengeType = "dns" =>
      IF frame[p].config.DNSProvider = "manual"
      THEN ~Logged(p, "setup:unsupported")
      ELSE /\ ~Logged(p, "register:dns") /\ ~Logged(p, "register:http")
           /\ ~Logged(p, "obtain:ok") /\ ~Logged(p, "obtain:fail")
           /\ Returned(p) =>
                /\ frame[p].res = "err"
                /\ frame[p].err = ValidateDNSProviderConfig(frame[p].config.DNSProvider)

\* C10: an Issue whose challenge type is not a supported one returns the
\* "unsupported challenge type" error naming the type; it registers no
\* challenge provider, submits no obtain request and writes to no store.
C10_UnsupportedChallengeType ==
  \A p \in IssueCalls :
    frame[p].config.ChallengeType \notin GetSupportedChallengeTypes =>
      /\ pc[p] \in {"setup", "done"}
      /\ ~Logged(p, "register:dns") /\ ~Logged(p, "register:http")
      /\ ~Logged(p, "obtain:ok") /\ ~Logged(p, "obtain:fail")
      /\ frame[p].blobWrites = 0 /\ frame[p].recWrites = 0
      /\ ~HasBlob(frame[p].cert.ID)
      /\ Returned(p) =>
           /\ frame[p].res = "err"
           /\ frame[p].err = Error("unsupported challenge type", frame[p].config.ChallengeType)

\* an Issue with type "smtp" has returned, on an account with no provider
C10_Witness ==
  \E p \in IssueCalls :
    /\ Returned(p) /\ frame[p].config.ChallengeType = "smtp"
    /\ Logged(p, "setup:unsupported")
    /\ accts[frame[p].acct].providers = {}
\* the event a call logs when it registers the provider of a challenge type
RegisterEvent(t) ==
  IF t = "http" THEN "register:http" ELSE IF t = "dns" THEN "register:dns" ELSE "none"

ObtainCalled(p) == Logged(p, "obtain:ok") \/ Logged(p, "obtain:fail")

\* C11: whenever an Issue attempt is about to submit, or has submitted, its
\* obtain request, that same attempt has already registered the provider of
\* its own challenge type on the account's client, as its first step; this
\* holds for every attempt, also one on an account where an earlier attempt
\* registered the same provider.
C11_ConfigureBeforeObtain ==
  \A p \in IssueCalls :
    (pc[p] \in {"obtain", "save"} \/ ObtainCalled(p)) =>
      /\ Len(frame[p].log) >= 1
      /\ frame[p].log[1] = RegisterEvent(frame[p].config.ChallengeType)
      /\ frame[p].config.ChallengeType \in accts[frame[p].acct].providers

\* two attempts on the same account with the same challenge type have both
\* called obtain
C11_Witness ==
  \E p, q \in IssueCalls :
    /\ p # q /\ frame[p].acct = frame[q].acct
    /\ frame[p].config.ChallengeType = "dns" /\ frame[q].config.ChallengeType = "dns"
    /\ Returned(p) /\ ObtainCalled(p)
    /\ ObtainCalled(q) /\ Logged(q, "register:dns")
AccountIds == {r.id : r \in records}

Served == http.last # NoExchange
LastReq == http.last.req
LastOut == http.last.out
AuthEnabled == ~(Getenv(http.env.AUTH_ENABLED) \in {"false", "0"})
\* no header, or a token that is malformed, wrongly signed or expired
TokenRejected(h) ==
  \/ h = NoHeader
  \/ TrimPrefix(h).form # "jwt" \/ ~TrimPrefix(h).sigOK \/ TrimPrefix(h).expired

\* C13: GET /healthz is answered 200 "OK" by the Healthz handler without the
\* authentication middleware running, whatever AUTH_ENABLED and the key file
\* are; any other handler runs only after the middleware let the request
\* through.
C13_HealthzPublicRestProtected ==
  Served =>
    /\ (LastReq.method = "GET" /\ LastReq.path = "/healthz") =>
         /\ LastOut.handler = "Healthz" /\ LastOut.auth = "skipped"
         /\ Status(LastOut.ops) = 200 /\ Body(LastOut.ops) = <<"OK">>
    /\ LastOut.handler \notin {"none", "Healthz"} =>
         LastOut.auth \in {"disabled", "passed"}
    /\ LastOut.auth = "passed" =>
         /\ AuthEnabled /\ ~TokenRejected(LastReq.authorization)
         /\ http.env.keyFile = "readable"

\* /healthz served without a header while authentication is enabled
C13_Witness ==
  /\ Served /\ AuthEnabled /\ http.env.keyFile = "missing"
  /\ LastReq.method = "GET" /\ LastReq.path = "/healthz"
  /\ LastReq.authorization = NoHeader
  /\ Status(LastOut.ops) = 200

\* C14 (as claimed): with authentication enabled, GET /test without an
\* Authorization header or with a token that fails parsing, verification or
\* validity is answered 401 and the Test handler does not run.
C14_Rejected401 ==
  ( /\ Served /\ AuthEnabled
    /\ LastReq.method = "GET" /\ LastReq.path = "/test"
    /\ TokenRejected(LastReq.authorization) )
  => Status(LastOut.ops) = 401 /\ LastOut.handler = "none"

\* C14 (amended): such a request never reaches the Test handler; it is
\* answered 401, except that it is answered 500 when it carries an
\* Authorization header and the key file cannot be read.
C14_RejectedNeverServed ==
  ( /\ Served /\ AuthEnabled
    /\ LastReq.method = "GET" /\ LastReq.path = "/test"
    /\ TokenRejected(LastReq.authorization) )
  => /\ LastOut.handler = "none" /\ LastOut.auth = "rejected"
     /\ Status(LastOut.ops) =
          IF LastReq.authorization # NoHeader /\ http.env.keyFile # "readable"
          THEN 500 ELSE 401

\* an expired token was answered 401 with the key file readable
C14_Witness ==
  /\ Served /\ AuthEnabled /\ http.env.keyFile = "readable"
  /\ LastReq.method = "GET" /\ LastReq.path = "/test"
  /\ LastReq.authorization = [scheme |-> "Bearer ", token |-> ExpiredToken]
  /\ Status(LastOut.ops) = 401

\* C15 (as claimed): when AUTH_ENABLED is neither "true" nor "1", GET /test
\* without an Authorization header is served by the Test handler.
C15_DisabledUnlessTrue ==
  ( /\ Served
    /\ Getenv(http.env.AUTH_ENABLED) \notin {"true", "1"}
    /\ LastReq.method = "GET" /\ LastReq.path = "/test"
    /\ LastReq.authorization = NoHeader )
  => LastOut.handler = "Test" /\ Status(LastOut.ops) = 200
C17_DuplicateFallsBackToLookup ==
  \A p \in NewAccountCalls :
    (Logged(p, "create:duplicate") /\ Returned(p)) =>
      /\ frame[p].res = "ok"
      /\ \E r \in records : r.email = frame[p].email /\ r.id = frame[p].id
\* the blob under id is a stored RSA key as SavePrivateKey writes it
GoodKeyBlob(id) ==
  /\ HasBlob(id)
  /\ \E n \in 1..NumKeys : blobs[id] = PrivateKeyPem([alg |-> "rsa", n |-> n])

\* C18 (as claimed): when NewAccount reads the key of an existing account and
\* the blob is missing, unreadable, not PEM or not a parseable RSA key, the
\* call returns an error and no account, and never goes on to build a client.
C18_BadKeyIsError ==
  [][ \A p \in Procs :
        (/\ pc[p] = "readkey"
         /\ pc'[p] # "readkey"
         /\ ~GoodKeyBlob(frame[p].id))
        => (/\ pc'[p] = "done"
            /\ frame'[p].res = "err"
            /\ frame'[p].err # NoError
            /\ accts' = accts) ]_vars
\* the email's row is there but no key is stored under its id: the creating
\* call failed after the insert, or stopped for good between insert and save
Orphan(email) ==
  \E r \in records :
    /\ r.email = email
    /\ ~HasBlob(r.id)

\* a returned NewAccount that started when the email's row already existed
\* and that finds the row orphaned
LaterCallOnOrphan(p) ==
  /\ p \in NewAccountCalls
  /\ Returned(p)
  /\ frame[p].existed
  /\ Orphan(frame[p].email)

C20_NoRowWithoutKey ==
  \A r \in records : r.id \in KeyBlobIds

\* C20 (amended): the account row is written first and the key blob after
\* it, so every key blob in the store belongs to an account row that already
\* exists; a row whose key blob is absent is reachable (between the two
\* writes and after a failure between them), never a key blob without row.
C20_NoKeyWithoutRow ==
  /\ \A k \in KeyBlobIds : \E r \in records : r.id = k
  /\ \A p \in NewAccountCalls :
       frame[p].blobWrites > 0 => frame[p].recWrites > 0

\* a creating call inserted the row, failed to save the key and returned:
\* the row is there without its key blob
C20_Witness ==
  \E p \in NewAccountCalls :
    /\ Returned(p)
    /\ Logged(p, "create:ok")
    /\ Logged(p, "savekey:fail")
    /\ \E r \in records : r.id = frame[p].id /\ ~HasBlob(r.id)
    /\ \A k \in KeyBlobIds : \E r \in records : r.id = k
\* C21: a key blob, once stored under an account's identifier, is never
\* overwritten or changed by any step of any NewAccount or issuance call,
\* and a NewAccount call writes at most one account row and one key blob.
C21_KeyBlobImmutable ==
  [][ /\ \A k \in KeyBlobIds : k \in DOMAIN blobs' /\ blobs'[k] = blobs[k]
      /\ \A p \in Procs :
           frame'[p].op = "NewAccount" =>
             frame'[p].recWrites <= 1 /\ frame'[p].blobWrites <= 1 ]_vars

\* an account's key is stored, a certificate was saved for that account and
\* a later NewAccount for the same email has returned the account
C21_Witness ==
  \E p, q \in Procs, r \in records :
    /\ GoodKeyBlob(r.id)
    /\ p \in IssueCalls /\ Logged(p, "save:ok") /\ frame[p].cert.AccountID = r.id
    /\ HasBlob(frame[p].cert.ID)
    /\ q \in NewAccountCalls /\ frame[q].existed /\ frame[q].res = "ok"
    /\ frame[q].id = r.id
\* C22 (as claimed): while a row for the email exists, soft-removed or not,
\* a NewAccount for that email whose lookup query worked never fails with
\* the duplicate-email error, and an account it returns has that row's id;
\* no second row for the email appears.
C22_SoftRemovedResolves ==
  \A p \in NewAccountCalls :
    (Returned(p) /\ frame[p].existed /\ ~Logged(p, "lookup:error")) =>
      /\ ~Logged(p, "create:duplicate")
      /\ frame[p].err # DuplicateError
      /\ frame[p].res = "ok" =>
           \E r \in records : r.email = frame[p].email /\ r.id = frame[p].id
      /\ Cardinality({r \in records : r.email = frame[p].email}) = 1
\* C23 (as claimed): an issuance whose configuration leaves the challenge
\* type empty behaves as one configured with http: it registers the HTTP
\* responder and goes on to the obtain request, and never fails as
\* unsupported.
C23_EmptyTypeMeansHTTP ==
  \A p \in IssueCalls :
    (frame[p].config.ChallengeType = "" /\ pc[p] # "setup") =>
      /\ ~Logged(p, "setup:unsupported")
      /\ Logged(p, "register:http") \/ Logged(p, "setup:fail")
      /\ Logged(p, "register:http") => pc[p] = "obtain" \/ ObtainCalled(p)
\* obtain requests a call has submitted so far
ObtainCount(f) ==
  Cardinality({i \in 1..Len(f.log) : f.log[i] \in {"obtain:ok", "obtain:fail"}})

\* C24: an issuance call submits at most one obtain request, for the whole
\* domain list it was given; the only thing it ever stores is the bundle of
\* that whole list, under its own identifier and after a successful obtain;
\* a failed obtain or a failed save ends the call with the error, with no
\* further obtain request and nothing stored.
C24_OneBundledObtain ==
  [][ \A p \in Procs :
        (frame'[p].op = "Issue" /\ pc'[p] # pc[p]) =>
          /\ ObtainCount(frame'[p]) <= 1
          /\ frame'[p].cert.Domains = frame'[p].argDomains
          /\ Logged(p, "obtain:ok")' =>
               frame'[p].cert.Cert = Bundle(frame'[p].argDomains)
          /\ blobs' # blobs =>
               /\ Logged(p, "obtain:ok")
               /\ blobs' = Put(blobs, frame[p].cert.ID, Bundle(frame[p].argDomains))
          /\ (Logged(p, "obtain:fail")' \/ Logged(p, "save:fail")') =>
               /\ pc'[p] = "done"
               /\ frame'[p].res = "err"
               /\ frame'[p].err # NoError
               /\ frame'[p].blobWrites = 0
               /\ blobs' = blobs ]_vars

\* an issuance for two names obtained its bundle, failed to save it and
\* returned the error: one obtain request, nothing stored
C24_Witness ==
  \E p \in IssueCalls :
    /\ Returned(p)
    /\ Len(frame[p].argDomains) = 2
    /\ Logged(p, "obtain:ok")
    /\ Logged(p, "save:fail")
    /\ ObtainCount(frame[p]) = 1
    /\ frame[p].res = "err"
    /\ ~HasBlob(frame[p].cert.ID)
\* C25 (as claimed): when setting up the challenge provider fails, the
\* issuance call returns an error that carries the underlying one, the
\* process keeps running, no obtain request is made and nothing is stored.
C25_SetupFailureReturned ==
  \A p \in IssueCalls :
    (Logged(p, "setup:fail") \/ Logged(p, "setup:fatal")) =>
      /\ pc[p] = "done"
      /\ frame[p].res = "err"
      /\ frame[p].err.cause \in AcmeErrs
      /\ frame[p].err.prefix # ""
      /\ \A q \in Procs : pc[q] # "exited"
      /\ ~ObtainCalled(p)
      /\ frame[p].blobWrites = 0
\* two issuance calls in the two workers, for the same account
SameAccountIssues(p, q) ==
  /\ p # q
  /\ p \in IssueCalls
  /\ q \in IssueCalls
  /\ frame[p].cert.AccountID = frame[q].cert.AccountID

C27_OnlyOwnProviderAtObtain ==
  [][ \A p \in Procs :
        (pc[p] = "obtain" /\ pc'[p] # "obtain") =>
          accts[frame[p].acct].providers = {frame[p].config.ChallengeType} ]_vars
CreateCalls == {p \in Procs : frame[p].op = "Create"}

C29_UnreadableKeyFile ==
  ( /\ Served /\ AuthEnabled
    /\ LastReq.method = "GET" /\ LastReq.path = "/test"
    /\ http.env.keyFile # "readable" )
  => /\ LastOut.handler = "none"
     /\ ~LastOut.panicked
     /\ IF LastReq.authorization # NoHeader
        THEN /\ Status(LastOut.ops) = 500
             /\ Body(LastOut.ops) = <<"Internal Server Error\n">>
        ELSE /\ Status(LastOut.ops) = 401
             /\ Body(LastOut.ops) = <<"Unauthorized\n">>

\* a request with a well-formed, correctly signed, unexpired token was
\* answered 500 because the key file could not be read
C29_Witness ==
  /\ Served /\ AuthEnabled /\ http.env.keyFile # "readable"
  /\ LastReq.method = "GET" /\ LastReq.path = "/test"
  /\ LastReq.authorization = [scheme |-> "Bearer ", token |-> ValidToken]
  /\ Status(LastOut.ops) = 500
  /\ LastOut.handler = "none"
InFlight(p) == pc[p] \notin {"idle", "done"}

\* C30: when every store access and every ACME exchange eventually returns,
\* every NewAccount call and every issuance call in flight eventually
\* returns, with a result or with an error; and a call waiting for its
\* obtain request leaves that position only by the return of the obtain
\* request: there is no abort path.
C30_CallsReturn ==
  /\ \A p \in Procs :
       InFlight(p) ~> (pc[p] = "done" /\ frame[p].res \in {"ok", "err"})
  /\ [][ \A p \in Procs :
           (pc[p] = "obtain" /\ pc'[p] # "obtain") =>
             /\ RequestObtain(p)
             /\ ObtainCount(frame'[p]) = ObtainCount(frame[p]) + 1 ]_vars

\* an issuance call has gone through setup, obtain and save and returned
\* its certificate, and a NewAccount call in the other worker has returned
C30_Witness ==
  \E p \in IssueCalls, q \in NewAccountCalls :
    /\ pc[p] = "done" /\ frame[p].res = "ok"
    /\ Len(frame[p].log) = 3
    /\ pc[q] = "done" /\ frame[q].res \in {"ok", "err"}
\* C31: no step of an issuance call, successful or failed, changes the
\* accounts table or an object stored under an account's identifier; the
\* only object it can write is one under the new certificate's identifier,
\* in its save step.
C31_IssueLeavesAccounts ==
  [][ \A p \in Procs :
        (pc'[p] # pc[p] /\ (frame[p].op = "Issue" \/ frame'[p].op = "Issue")
                        /\ pc[p] \in {"idle", "done", "setup", "obtain", "save"}
                        /\ pc'[p] \in {"setup", "obtain", "save", "done"}) =>
          /\ records' = records
          /\ \A r \in records :
               /\ HasBlob(r.id)' = HasBlob(r.id)
               /\ HasBlob(r.id) => blobs'[r.id] = blobs[r.id]
          /\ \A k \in DOMAIN blobs' :
               (k \notin DOMAIN blobs \/ blobs'[k] # blobs[k]) =>
                 /\ pc[p] = "save"
                 /\ k = frame[p].cert.ID
                 /\ k \notin AccountIds ]_vars

\* an issuance has saved its bundle under its own identifier while the
\* account's row and key blob are as the account's creation left them
C31_Witness ==
  \E p \in IssueCalls, r \in records :
    /\ Returned(p)
    /\ frame[p].res = "ok"
    /\ frame[p].cert.AccountID = r.id
    /\ frame[p].cert.ID # r.id
    /\ frame[p].cert.ID \in CertBlobIds
    /\ r.id \in KeyBlobIds
    /\ ~r.deleted
RECURSIVE WrittenBytes(_)
WrittenBytes(ops) ==
  IF ops = << >> THEN 0
  ELSE WrittenBytes(SubSeq(ops, 1, Len(ops) - 1))
         + (IF ops[Len(ops)].call = "Write" THEN ops[Len(ops)].n ELSE 0)

LastWriteHeader(ops) ==
  LET hs == {i \in 1..Len(ops) : ops[i].call = "WriteHeader"}
  IN IF hs = {} THEN 200 ELSE ops[CHOOSE i \in hs : \A j \in hs : j <= i].code

\* C32 (as claimed): every request served, one rejected by the
\* authentication middleware included, leaves exactly one log entry; its
\* status is the last one passed to WriteHeader (200 when there was none)
\* and its size the sum of the bytes of all Write calls.
C32_EveryRequestLogged ==
  Served =>
    /\ Len(http.last.log) = 1
    /\ http.last.log[1].StatusCode = LastWriteHeader(LastOut.ops)
    /\ http.last.log[1].ResponseSize = WrittenBytes(LastOut.ops)
\* C33 (as claimed): Start serves HTTPS when DOMAIN is set and plain HTTP
\* when it is empty, and the listener is bound to host:port whenever Host
\* and Port are both given, otherwise to :443 for HTTPS and :80 for HTTP.
C33_StartHonoursHostPort ==
  LET srv == http.server
  IN srv # NotStarted =>
       /\ srv.scheme = IF srv.domain # "" THEN "https" ELSE "http"
       /\ srv.Addr = IF srv.Host # NilHost /\ srv.Port # NilPort
                     THEN [host |-> srv.Host, port |-> srv.Port]
                     ELSE IF srv.scheme = "https"
                       THEN [host |-> "", port |-> 443]
                       ELSE [host |-> "", port |-> 80]
====
